---- MODULE Spec2Model ----
(***************************************************************************)
(* Forecast (source/shared/Forecast/forecast.py): the desired state of a   *)
(* forecast of the Amazon Forecast service.  Forecast objects hold no      *)
(* state of their own between calls: every property access queries the     *)
(* remote service, whose forecasts and export jobs are the state.          *)
(*                                                                         *)
(* Strings are sequences of tokens, so that the f-strings and str.replace  *)
(* of the source are concatenations and substitutions.  A missing value    *)
(* (None) of a string is the empty sequence: both are falsy in Python.     *)
(***************************************************************************)
EXTENDS Integers, Sequences, FiniteSets, TLC

\* ------------------------------------------------------------------ bounds
NClients == 2
MaxTime == 1
MaxForecasts == 2
MaxExports == 1
NDatasets == 2
PageSize == 1

Clients == 1..NClients
None == <<>>

\* --------------------------------------------------- the collaborators' data
GroupNames == {<<"sales">>, <<"sales", "_", "eu">>}
Timestamps == <<(<<"2021", "_", "05">>), (<<"2021", "_", "06">>)>>
Predictors == {"predictor/A", "predictor/B"}
ExternalPredictor == "predictor/X"
DatasetGroupArn == "dataset-group/own"
ExternalGroupArn == "dataset-group/other"
ExternalName == <<"forecast_", "other">>
Buckets == {"bucket1", "bucket2"}
FORECAST_ROLE == "role/forecast"

\* shared.status.Status: the local enumeration (a remote status outside it has
\* no member, and looking it up raises KeyError)
Status == {"DOES_NOT_EXIST", "ACTIVE", "CREATE_PENDING", "CREATE_IN_PROGRESS",
           "CREATE_FAILED", "DELETE_PENDING", "DELETE_IN_PROGRESS", "DELETE_FAILED",
           "UPDATE_PENDING", "UPDATE_IN_PROGRESS", "UPDATE_FAILED"}
\* the statuses the remote service moves a created resource to
RemoteFinal == {"ACTIVE", "CREATE_STOPPED"}

\* Forecast.__init__ keeps **forecast_config and passes it through on create()
forecast_config(c) == [ForecastTypes |-> IF c = 1 THEN <<"0.5">> ELSE <<"0.1", "0.9">>]

tags == <<"SolutionId">>

VARIABLES
    clock,             \* the remote service's time
    predictor_arn,     \* Predictor.arn: the current predictor
    group_name,        \* DatasetGroup.dataset_group_name
    latest_timestamp,  \* DatasetGroup.latest_timestamp, an index of Timestamps
    datasets,          \* DatasetGroup.datasets: each dataset's LastModificationTime
    forecasts,         \* the remote service's forecasts (every dataset group's)
    export_jobs,       \* the remote service's forecast export jobs
    client,            \* per Forecast object: the frame of its call in progress
    caller             \* per Forecast object: what its caller remembers

vars == <<clock, predictor_arn, group_name, latest_timestamp, datasets,
          forecasts, export_jobs, client, caller>>
env == <<clock, predictor_arn, group_name, latest_timestamp, datasets>>

\* -------------------------------------------------- the remote service
\* The ARN the service gives a forecast / an export job of a forecast.
ForecastArnOf(name) == <<"arn:aws:forecast", ":forecast/">> \o name
ExportJobArnOf(forecast, name) ==
    <<"arn:aws:forecast", ":forecast-export-job/">> \o forecast \o <<"/">> \o name

\* The dataset group of a predictor (the service derives a forecast's from it).
GroupOfPredictor(p) == IF p \in Predictors THEN DatasetGroupArn ELSE ExternalGroupArn

\* list_forecasts(Filters=filters): the forecasts every filter (Key IS Value) keeps
list_forecasts(fs) ==
    {f \in forecasts : \A i \in DOMAIN fs : f[fs[i].Key] = fs[i].Value}

\* the orders in which the service may list a set of resources
Listings(S) == {s \in [1..Cardinality(S) -> S] : \A i, j \in DOMAIN s : s[i] = s[j] => i = j}

\* the pages of a listing, PageSize entries each
RECURSIVE Paginate(_)
Paginate(listing) ==
    IF Len(listing) <= PageSize THEN <<listing>>
    ELSE <<SubSeq(listing, 1, PageSize)>> \o Paginate(SubSeq(listing, PageSize + 1, Len(listing)))

\* the service's answers to a request that creates or deletes a forecast
ForecastAnswers(req) ==
    IF req.op = "delete_forecast"
    THEN (IF \E f \in forecasts : f.ForecastArn = req.ForecastArn
          THEN {"ok"} ELSE {"ResourceNotFoundException"})
    ELSE IF \E f \in forecasts : f.ForecastName = req.ForecastName
    THEN {"ResourceAlreadyExistsException", "ResourceInUseException"}
    ELSE IF Cardinality(forecasts) >= MaxForecasts
    THEN {"LimitExceededException", "ResourceInUseException"}
    ELSE {"ok", "ResourceInUseException"}

NewForecast(req) ==
    [ForecastName |-> req.ForecastName,
     ForecastArn |-> ForecastArnOf(req.ForecastName),
     DatasetGroupArn |-> GroupOfPredictor(req.PredictorArn),
     PredictorArn |-> req.PredictorArn,
     CreationTime |-> clock,
     LastModificationTime |-> clock,
     Status |-> "CREATE_PENDING"]

\* the service's forecasts after it answered `answer` to request `req`
ApplyForecastRequest(req, answer) ==
    IF req.op = "create_forecast" /\ answer = "ok" THEN forecasts \cup {NewForecast(req)}
    ELSE IF req.op = "delete_forecast" /\ answer = "ok"
    THEN {f \in forecasts : f.ForecastArn # req.ForecastArn}
    ELSE forecasts

\* describe_forecast: the forecasts with that ARN (none: ResourceNotFoundException)
describe_forecast(arn) == {f \in forecasts : f.ForecastArn = arn}

\* the service's answers to describe_forecast_export_job
DescribeExportAnswers(arn) ==
    IF \E j \in export_jobs : j.ForecastExportJobArn = arn
    THEN {"ok", "ResourceInUseException"}
    ELSE {"ResourceNotFoundException"}

\* the service's answers to create_forecast_export_job
CreateExportAnswers(req) ==
    IF \A f \in forecasts : f.ForecastArn # req.ForecastArn
    THEN {"ResourceNotFoundException"}
    ELSE IF \E j \in export_jobs : j.ForecastArn = req.ForecastArn
                                   /\ j.ForecastExportJobName = req.ForecastExportJobName
    THEN {"ResourceAlreadyExistsException"}
    ELSE IF Cardinality(export_jobs) >= MaxExports
    THEN {"LimitExceededException"}
    ELSE {"ok", "ResourceInUseException"}

NewExportJob(req) ==
    LET f == CHOOSE f \in forecasts : f.ForecastArn = req.ForecastArn IN
    [ForecastExportJobArn |-> ExportJobArnOf(f.ForecastName, req.ForecastExportJobName),
     ForecastExportJobName |-> req.ForecastExportJobName,
     ForecastArn |-> req.ForecastArn,
     Destination |-> req.Destination,
     Status |-> "CREATE_PENDING"]

\* ------------------------------------------------------- Forecast: the code
\* (a bug: only the first page read)
Extend_first_page(pages) == Head(pages)

\* past_forecasts.extend(page.get("Forecasts", [])) over the pages
RECURSIVE Extend(_)
Extend(pages) == IF pages = <<>> THEN <<>> ELSE Head(pages) \o Extend(Tail(pages))

\* x put into a list sorted descending by LastModificationTime, after the entries
\* that compare equal (sorted() is stable, with reverse=True too)
RECURSIVE Insert(_, _)
Insert(sorted, x) ==
    IF sorted = <<>> THEN <<x>>
    ELSE IF Head(sorted).LastModificationTime >= x.LastModificationTime
    THEN <<Head(sorted)>> \o Insert(Tail(sorted), x)
    ELSE <<x>> \o sorted

RECURSIVE SortedDescending(_)
SortedDescending(list) ==
    IF list = <<>> THEN <<>>
    ELSE Insert(SortedDescending(SubSeq(list, 1, Len(list) - 1)), list[Len(list)])

\* Forecast.history(), the service listing the group's forecasts as `listing`
history(listing) == SortedDescending(Extend(Paginate(listing)))

\* (a bug: history() without its filter)
filters_missing == <<>>

\* the filters of history(): the forecasts of the owning dataset group
filters == <<[Key |-> "DatasetGroupArn", Condition |-> "IS", Value |-> DatasetGroupArn]>>

\* the value of Forecast.arn for a history
arn(past_forecasts) ==
    IF past_forecasts = <<>> THEN None ELSE past_forecasts[1].ForecastArn

\* (a bug: export() without its precondition)
not_arn_unchecked(forecast_arn) == FALSE

\* `not self.arn` of export()
not_arn(forecast_arn) == forecast_arn = None

Return(value) == [kind |-> "return", value |-> value]
Raise(error) == [kind |-> "raise", value |-> error]

\* (a bug: every remote status read as CREATE_PENDING)
StatusLookup_pending(name) == Return("CREATE_PENDING")

\* Status[name]
StatusLookup(name) == IF name \in Status THEN Return(name) ELSE Raise("KeyError")

\* (a bug: the predictor never compared)
predictor_changed_ignored(past_status, predictor) == FALSE

\* past_status.get("PredictorArn") != self._predictor.arn
predictor_changed(past_status, predictor) == past_status.PredictorArn # predictor

\* (a bug: the datasets compared with the forecast's last modification)
datasets_changed_since_modification(past_status, dsets) ==
    \E d \in DOMAIN dsets : dsets[d] > past_status.LastModificationTime

\* (a bug: >= for >)
datasets_changed_or_same(past_status, dsets) ==
    \E d \in DOMAIN dsets : dsets[d] >= past_status.CreationTime

\* a dataset's LastModificationTime > past_status.get("CreationTime")
datasets_changed(past_status, dsets) ==
    \E d \in DOMAIN dsets : dsets[d] > past_status.CreationTime

\* Forecast.status once describe_forecast has answered past_status
status(past_status, predictor, dsets) ==
    IF predictor_changed(past_status, predictor) THEN Return("DOES_NOT_EXIST")
    ELSE IF datasets_changed(past_status, dsets) THEN Return("DOES_NOT_EXIST")
    ELSE StatusLookup(past_status.Status)

\* (a bug: the forecast named after its predictor)
forecast_name_of_predictor(name, timestamp) ==
    <<"forecast_">> \o name \o <<"_", predictor_arn>>

\* f"forecast_{dataset_group_name}_{latest_timestamp}"
forecast_name(name, timestamp) == <<"forecast_">> \o name \o <<"_">> \o timestamp

\* (a bug: create() replacing the forecast it finds)
create_forecast_request_replacing(c) ==
    [op |-> "delete_forecast",
     ForecastName |-> forecast_name(group_name, Timestamps[latest_timestamp]),
     ForecastArn |-> ForecastArnOf(forecast_name(group_name, Timestamps[latest_timestamp])),
     PredictorArn |-> predictor_arn,
     Tags |-> tags,
     config |-> forecast_config(c)]

\* the create_forecast request of create()
create_forecast_request(c) ==
    [op |-> "create_forecast",
     ForecastName |-> forecast_name(group_name, Timestamps[latest_timestamp]),
     PredictorArn |-> predictor_arn,
     Tags |-> tags,
     config |-> forecast_config(c)]

\* (bugs: one of the two except clauses missing)
create_absorbed_exists_only == {"ResourceAlreadyExistsException"}
create_absorbed_in_use_only == {"ResourceInUseException"}

\* the exceptions of create_forecast that create() absorbs
create_absorbed == {"ResourceAlreadyExistsException", "ResourceInUseException"}

\* (a bug: except Exception around create_forecast)
create_outcome_absorbing_all(answer) == Return("None")

\* create() after the service answered its request
create_outcome(answer) ==
    IF answer = "ok" \/ answer \in create_absorbed THEN Return("None") ELSE Raise(answer)

\* f"export_{dataset_group_name}_{latest_timestamp}"
export_name(name, timestamp) == <<"export_">> \o name \o <<"_">> \o timestamp

\* str.replace(old, new) on a string of tokens
Replace(s, old, new) == [i \in DOMAIN s |-> IF s[i] = old THEN new ELSE s[i]]

\* self.arn.replace(":forecast/", ":forecast-export-job/") + f"/{export_name}"
export_job_arn(forecast_arn, name) ==
    Replace(forecast_arn, ":forecast/", ":forecast-export-job/") \o <<"/">> \o name

\* (a bug: the export written to the bucket's root)
create_export_request_flat(forecast_arn, name, bucket) ==
    [op |-> "create_forecast_export_job",
     ForecastArn |-> forecast_arn,
     ForecastExportJobName |-> name,
     Destination |-> [Path |-> <<"s3://", bucket, "/">> \o name,
                      RoleArn |-> FORECAST_ROLE]]

\* the create_forecast_export_job request of export()
create_export_request(forecast_arn, name, bucket) ==
    [op |-> "create_forecast_export_job",
     ForecastArn |-> forecast_arn,
     ForecastExportJobName |-> name,
     Destination |-> [Path |-> <<"s3://", bucket, "/exports/">> \o name,
                      RoleArn |-> FORECAST_ROLE]]

\* (a bug: an Export born with the status of a created export job)
Export_created == [status |-> "CREATE_PENDING"]

\* class Export: a new Export's status is the class's, Status.DOES_NOT_EXIST
Export == [status |-> "DOES_NOT_EXIST"]

\* --------------------------------------------------------------- the state
Idle ==
    [pc |-> "idle", op |-> "none", result |-> [kind |-> "none", value |-> "none"],
     arn |-> None, past_forecasts |-> <<>>, past_status |-> <<>>,
     predictor_arn |-> "none", datasets |-> <<>>, export_name |-> None,
     described_arn |-> None, created_arn |-> None, latest_timestamp |-> 0,
     bucket |-> "none", export_status |-> "none", answer |-> "none", calls |-> <<>>]

Init ==
    /\ clock = 0
    /\ predictor_arn \in Predictors
    /\ group_name \in GroupNames
    /\ latest_timestamp = 1
    /\ datasets = [d \in 1..NDatasets |-> 0]
    /\ forecasts = {}
    /\ export_jobs = {}
    /\ client = [c \in Clients |-> Idle]
    /\ caller = [c \in Clients |-> "none"]

\* A finished call's frame is read by its caller before anything else moves: the
\* frame of a call that is done is what the call saw and did, and the service's
\* state beside it is the state the call ended in.  A step that could follow the
\* end of a call can as well follow Consume.
Running == \A c \in Clients : client[c].pc # "done"

\* a call of the service's client, and the answer it got
Call(req, answer) == [req |-> req, answer |-> answer]

\* the list_forecasts calls of one history(): one per page
ListCalls(listing) ==
    [i \in 1..Len(Paginate(listing)) |->
        Call([op |-> "list_forecasts", Filters |-> filters], "ok")]

\* the forecasts of the owning dataset group
OwnForecasts == {f \in forecasts : f.DatasetGroupArn = DatasetGroupArn}

\* ------------------------------------------------------------ Forecast.arn
CallArn(c) ==
    /\ Running
    /\ client[c].pc = "idle"
    /\ \E listing \in Listings(list_forecasts(filters)) :
         LET past_forecasts == history(listing) IN
         client' = [client EXCEPT ![c] =
             [Idle EXCEPT !.pc = "done", !.op = "arn",
                          !.past_forecasts = past_forecasts,
                          !.arn = arn(past_forecasts),
                          !.result = Return("arn"),
                          !.calls = ListCalls(listing)]]
    /\ UNCHANGED <<env, forecasts, export_jobs, caller>>

\* --------------------------------------------------------- Forecast.status
\* lines 96-101: history(), and the answer when it is empty
CallStatus(c) ==
    /\ Running
    /\ client[c].pc = "idle"
    /\ \E listing \in Listings(list_forecasts(filters)) :
         LET past_forecasts == history(listing) IN
         client' = [client EXCEPT ![c] =
             IF past_forecasts = <<>>
             THEN [Idle EXCEPT !.pc = "done", !.op = "status",
                               !.result = Return("DOES_NOT_EXIST"),
                               !.calls = ListCalls(listing)]
             ELSE [Idle EXCEPT !.pc = "status_describe", !.op = "status",
                               !.arn = past_forecasts[1].ForecastArn,
                               !.calls = ListCalls(listing)]]
    /\ UNCHANGED <<env, forecasts, export_jobs, caller>>

\* lines 103-123: describe_forecast of the most recent forecast, and the checks
StatusDescribe(c) ==
    /\ Running
    /\ client[c].pc = "status_describe"
    /\ LET forecast_arn == client[c].arn
           found == describe_forecast(forecast_arn)
           req == [op |-> "describe_forecast", ForecastArn |-> forecast_arn]
       IN  client' = [client EXCEPT ![c] =
             IF found = {}
             THEN [@ EXCEPT !.pc = "done",
                            !.calls = Append(@, Call(req, "ResourceNotFoundException")),
                            !.result = Raise("ResourceNotFoundException")]
             ELSE LET past_status == CHOOSE f \in found : TRUE IN
                  [@ EXCEPT !.pc = "done", !.calls = Append(@, Call(req, "ok")),
                            !.past_status = <<past_status>>,
                            !.predictor_arn = predictor_arn,
                            !.datasets = datasets,
                            !.result = status(past_status, predictor_arn, datasets)]]
    /\ UNCHANGED <<env, forecasts, export_jobs, caller>>

\* --------------------------------------------------------- Forecast.create
CallCreate(c) ==
    /\ Running
    /\ client[c].pc = "idle"
    /\ LET req == create_forecast_request(c) IN
       \E answer \in ForecastAnswers(req) :
         /\ forecasts' = ApplyForecastRequest(req, answer)
         /\ client' = [client EXCEPT ![c] =
                [Idle EXCEPT !.pc = "done", !.op = "create", !.answer = answer,
                             !.predictor_arn = predictor_arn,
                             !.calls = <<Call(req, answer)>>,
                             !.result = create_outcome(answer)]]
    /\ UNCHANGED <<env, export_jobs, caller>>

\* --------------------------------------------------------- Forecast.export
\* lines 187-194: the precondition, the export's name, the Export to return
CallExport(c) ==
    /\ Running
    /\ client[c].pc = "idle"
    /\ \E bucket \in Buckets, listing \in Listings(list_forecasts(filters)) :
         LET checked == arn(history(listing)) IN
         client' = [client EXCEPT ![c] =
             IF not_arn(checked)
             THEN [Idle EXCEPT !.pc = "done", !.op = "export",
                               !.calls = ListCalls(listing),
                               !.result = Raise("ValueError")]
             ELSE [Idle EXCEPT !.pc = "export_describe", !.op = "export",
                               !.arn = checked, !.bucket = bucket,
                               !.latest_timestamp = latest_timestamp,
                               !.export_name =
                                   export_name(group_name, Timestamps[latest_timestamp]),
                               !.export_status = Export.status,
                               !.calls = ListCalls(listing)]]
    /\ UNCHANGED <<env, forecasts, export_jobs, caller>>

\* lines 195-207: describe_forecast_export_job, and what each answer leads to
ExportDescribe(c) ==
    /\ Running
    /\ client[c].pc = "export_describe"
    /\ \E listing \in Listings(list_forecasts(filters)) :
         LET described == arn(history(listing))
             job_arn == export_job_arn(described, client[c].export_name)
             req == [op |-> "describe_forecast_export_job",
                     ForecastExportJobArn |-> job_arn]
         IN
         IF described = None
         THEN client' = [client EXCEPT ![c] =
                 [@ EXCEPT !.pc = "done", !.calls = @ \o ListCalls(listing),
                           !.result = Raise("AttributeError")]]
         ELSE \E answer \in DescribeExportAnswers(job_arn) :
              client' = [client EXCEPT ![c] =
                 LET frame == [@ EXCEPT !.calls = Append(@ \o ListCalls(listing),
                                                          Call(req, answer)),
                                        !.described_arn = described,
                                        !.answer = answer]
                 IN
                 IF answer = "ok"
                 THEN LET past_status ==
                              CHOOSE j \in export_jobs : j.ForecastExportJobArn = job_arn
                          looked_up == StatusLookup(past_status.Status)
                      IN  IF looked_up.kind = "return"
                          THEN [frame EXCEPT !.pc = "done", !.result = Return("Export"),
                                             !.export_status = looked_up.value]
                          ELSE [frame EXCEPT !.pc = "done", !.result = looked_up]
                 ELSE IF answer = "ResourceInUseException"
                 THEN [frame EXCEPT !.pc = "done", !.result = Return("Export")]
                 ELSE [frame EXCEPT !.pc = "export_create"]]
    /\ UNCHANGED <<env, forecasts, export_jobs, caller>>

\* lines 207-219: create_forecast_export_job after ResourceNotFoundException
ExportCreate(c) ==
    /\ Running
    /\ client[c].pc = "export_create"
    /\ \E listing \in Listings(list_forecasts(filters)) :
         LET created == arn(history(listing))
             req == create_export_request(created, client[c].export_name, client[c].bucket)
         IN
         \E answer \in (IF created = None THEN {"ParamValidationError"}
                        ELSE CreateExportAnswers(req)) :
           /\ export_jobs' = IF answer = "ok" THEN export_jobs \cup {NewExportJob(req)}
                             ELSE export_jobs
           /\ client' = [client EXCEPT ![c] =
                LET frame == [@ EXCEPT !.pc = "done", !.created_arn = created,
                                       !.answer = answer,
                                       !.calls = Append(@ \o ListCalls(listing),
                                                        Call(req, answer))]
                IN  IF answer = "ok"
                    THEN [frame EXCEPT !.result = Return("Export"),
                                       !.export_status = "CREATE_PENDING"]
                    ELSE [frame EXCEPT !.result = Raise(answer)]]
    /\ UNCHANGED <<env, forecasts, caller>>

\* ---------------------------------------------------------------- the caller
\* what the caller keeps of a finished call
Remember(before, frame) ==
    IF frame.op = "status" /\ frame.result = Return("DOES_NOT_EXIST") THEN "observed_absent"
    ELSE IF frame.op = "create"
    THEN (IF before = "observed_absent" THEN "created_when_absent" ELSE "created")
    ELSE "none"

Consume(c) ==
    /\ client[c].pc = "done"
    /\ caller' = [caller EXCEPT ![c] = Remember(@, client[c])]
    /\ client' = [client EXCEPT ![c] = Idle]
    /\ UNCHANGED <<env, forecasts, export_jobs>>

\* ------------------------------------------------------------ the environment
Tick ==
    /\ Running
    /\ clock < MaxTime
    /\ clock' = clock + 1
    /\ UNCHANGED <<predictor_arn, group_name, latest_timestamp, datasets,
                   forecasts, export_jobs, client, caller>>

\* a new predictor becomes the current one
Retrain ==
    /\ Running
    /\ \E p \in Predictors \ {predictor_arn} : predictor_arn' = p
    /\ UNCHANGED <<clock, group_name, latest_timestamp, datasets,
                   forecasts, export_jobs, client, caller>>

\* a dataset of the group is updated
ModifyDataset(d) ==
    /\ Running
    /\ datasets[d] < clock
    /\ datasets' = [datasets EXCEPT ![d] = clock]
    /\ UNCHANGED <<clock, predictor_arn, group_name, latest_timestamp,
                   forecasts, export_jobs, client, caller>>

\* newer data arrive: the group's latest timestamp moves on
NewTimestamp ==
    /\ Running
    /\ latest_timestamp < Len(Timestamps)
    /\ latest_timestamp' = latest_timestamp + 1
    /\ UNCHANGED <<clock, predictor_arn, group_name, datasets,
                   forecasts, export_jobs, client, caller>>

\* the service finishes the creation of a forecast
ForecastProgress(f) ==
    /\ Running
    /\ f.Status = "CREATE_PENDING"
    /\ f.DatasetGroupArn = DatasetGroupArn
    /\ \E s \in RemoteFinal :
         forecasts' = (forecasts \ {f}) \cup
                      {[f EXCEPT !.Status = s, !.LastModificationTime = clock]}
    /\ UNCHANGED <<env, export_jobs, client, caller>>

\* the service finishes the creation of an export job
ExportProgress(j) ==
    /\ Running
    /\ j.Status = "CREATE_PENDING"
    /\ export_jobs' = (export_jobs \ {j}) \cup {[j EXCEPT !.Status = "ACTIVE"]}
    /\ UNCHANGED <<env, forecasts, client, caller>>

\* someone else creates a forecast, of this group or of another
ExternalCreate(name, p) ==
    /\ Running
    /\ LET req == [op |-> "create_forecast", ForecastName |-> name, PredictorArn |-> p] IN
         /\ "ok" \in ForecastAnswers(req)
         /\ forecasts' = ApplyForecastRequest(req, "ok")
    /\ UNCHANGED <<env, export_jobs, client, caller>>

\* someone else deletes a forecast and its export jobs
ExternalDelete(f) ==
    /\ Running
    /\ forecasts' = ApplyForecastRequest(
                        [op |-> "delete_forecast", ForecastArn |-> f.ForecastArn], "ok")
    /\ export_jobs' = {j \in export_jobs : j.ForecastArn # f.ForecastArn}
    /\ UNCHANGED <<env, client, caller>>

\* the names create() can ask for in this dataset group
OwnNames == {forecast_name(group_name, Timestamps[i]) : i \in DOMAIN Timestamps}

\* status asks whether any dataset is newer than the forecast, whichever it is:
\* of the datasets' times in every order, the descending one stands for all
InOrder(dsets) == \A d, e \in DOMAIN dsets : d < e => dsets[d] >= dsets[e]

\* ------------------------------------------------------- the specifications
\* One Forecast object reads arn and status while the service's forecasts, the
\* predictor and the datasets change under it.
NextStatus ==
    \/ CallArn(1)
    \/ CallStatus(1)
    \/ StatusDescribe(1)
    \/ Consume(1)
    \/ Tick
    \/ Retrain
    \/ \E d \in 1..NDatasets : ModifyDataset(d) /\ InOrder(datasets')
    \/ \E f \in forecasts : ForecastProgress(f)
    \/ \E name \in OwnNames, p \in Predictors : ExternalCreate(name, p)
    \/ ExternalCreate(ExternalName, ExternalPredictor)
    \/ \E f \in forecasts : ExternalDelete(f)

\* (status and arn read neither the group's name nor its latest timestamp)
InitStatus == Init /\ group_name = <<"sales">>

SpecStatus == InitStatus /\ [][NextStatus]_vars

\* Every Forecast object reconciles: it reads status and calls create().
NextCreate ==
    \/ \E c \in Clients : CallStatus(c)
    \/ \E c \in Clients : StatusDescribe(c)
    \/ \E c \in Clients : CallCreate(c)
    \/ \E c \in Clients : Consume(c)
    \/ Retrain
    \/ NewTimestamp
    \/ \E f \in forecasts : ForecastProgress(f)
    \/ ExternalCreate(ExternalName, ExternalPredictor)
    \/ \E f \in forecasts : ExternalDelete(f)

SpecCreate == Init /\ [][NextCreate]_vars

\* One Forecast object exports while forecasts are created and deleted.
NextExport ==
    \/ CallExport(1)
    \/ ExportDescribe(1)
    \/ ExportCreate(1)
    \/ Consume(1)
    \/ Tick
    \/ NewTimestamp
    \/ ExternalCreate(forecast_name(group_name, Timestamps[latest_timestamp]), predictor_arn)
    \/ \E f \in forecasts : ForecastProgress(f)
    \/ \E j \in export_jobs : ExportProgress(j)
    \/ \E f \in forecasts : ExternalDelete(f)

SpecExport == Init /\ [][NextExport]_vars

\* The reconcile loop of one Forecast object: it reads status, calls create()
\* when status is DOES_NOT_EXIST, and reads status again.
Reconcile(c) ==
    \/ caller[c] # "observed_absent" /\ CallStatus(c)
    \/ StatusDescribe(c)
    \/ caller[c] = "observed_absent" /\ CallCreate(c)
    \/ Consume(c)

\* the service accepts a create() of the loop
Accepted(c) ==
    caller[c] = "observed_absent" /\ CallCreate(c) /\ client'[c].answer = "ok"

\* the service completes a forecast it has accepted
Completes == \E f \in forecasts : ForecastProgress(f)

NextReconcile ==
    \/ Reconcile(1)
    \/ Tick
    \/ Retrain
    \/ \E d \in 1..NDatasets : ModifyDataset(d)
    \/ NewTimestamp
    \/ Completes

\* The loop keeps running, the service completes what it accepted, and a request
\* that it can accept is not answered "in use" for ever.
SpecReconcile ==
    /\ Init
    /\ [][NextReconcile]_vars
    /\ WF_vars(Reconcile(1))
    /\ WF_vars(Completes)
    /\ SF_vars(Accepted(1))

\* ------------------------------------------------------------- properties
Done(c, op) == client[c].pc = "done" /\ client[c].op = op

\* the ops of the calls a frame has made
Ops(frame) == {frame.calls[i].req.op : i \in DOMAIN frame.calls}

\* the calls of a frame with this op
CallsOf(frame, op) == {i \in DOMAIN frame.calls : frame.calls[i].req.op = op}

\* what Forecast.status evaluates to in the current state
StatusNow ==
    {LET past_forecasts == history(listing) IN
     IF past_forecasts = <<>> THEN Return("DOES_NOT_EXIST")
     ELSE status(past_forecasts[1], predictor_arn, datasets) :
        listing \in Listings(list_forecasts(filters))}

\* C1: while no forecast carries the dataset group's ARN, arn is None, status is
\* DOES_NOT_EXIST, and neither makes a call other than list_forecasts (no
\* describe_forecast).
C1_EmptyHistory ==
    [][\A c \in Clients :
        (/\ client[c].pc = "idle"
         /\ client'[c].op \in {"arn", "status"}
         /\ OwnForecasts = {})
        => /\ client'[c].pc = "done"
           /\ client'[c].arn = None
           /\ client'[c].op = "status" => client'[c].result = Return("DOES_NOT_EXIST")
           /\ Ops(client'[c]) \subseteq {"list_forecasts"}]_vars

\* status answered DOES_NOT_EXIST for an empty history while other dataset
\* groups have forecasts
C1_Witness ==
    \E c \in Clients :
        /\ Done(c, "status")
        /\ client[c].result = Return("DOES_NOT_EXIST")
        /\ OwnForecasts = {}
        /\ forecasts # {}

\* C2: when the described forecast's PredictorArn differs from the current
\* predictor's arn, status is DOES_NOT_EXIST, whatever the forecast's status and
\* the datasets' modification times.
C2_PredictorChanged ==
    \A c \in Clients :
        (/\ Done(c, "status")
         /\ client[c].past_status # <<>>
         /\ client[c].past_status[1].PredictorArn # client[c].predictor_arn)
        => client[c].result = Return("DOES_NOT_EXIST")

\* an ACTIVE forecast of another predictor, no dataset modified since its creation
C2_Witness ==
    \E c \in Clients :
        /\ Done(c, "status")
        /\ client[c].past_status # <<>>
        /\ client[c].past_status[1].PredictorArn \in Predictors \ {client[c].predictor_arn}
        /\ client[c].past_status[1].Status = "ACTIVE"
        /\ \A d \in DOMAIN client[c].datasets :
               client[c].datasets[d] <= client[c].past_status[1].CreationTime
        /\ client[c].result = Return("DOES_NOT_EXIST")

\* C3: when a dataset's LastModificationTime is greater than the described
\* forecast's CreationTime, status is DOES_NOT_EXIST, whatever the forecast's status.
C3_DatasetsChanged ==
    \A c \in Clients :
        (/\ Done(c, "status")
         /\ client[c].past_status # <<>>
         /\ \E d \in DOMAIN client[c].datasets :
                client[c].datasets[d] > client[c].past_status[1].CreationTime)
        => client[c].result = Return("DOES_NOT_EXIST")

\* an ACTIVE forecast of the current predictor, one dataset modified after its
\* creation and another not
C3_Witness ==
    \E c \in Clients :
        /\ Done(c, "status")
        /\ client[c].past_status # <<>>
        /\ client[c].past_status[1].PredictorArn = client[c].predictor_arn
        /\ client[c].past_status[1].Status = "ACTIVE"
        /\ \E d \in DOMAIN client[c].datasets :
               client[c].datasets[d] > client[c].past_status[1].CreationTime
        /\ \E d \in DOMAIN client[c].datasets :
               client[c].datasets[d] <= client[c].past_status[1].CreationTime
        /\ client[c].result = Return("DOES_NOT_EXIST")

\* C10: when the described forecast has the current predictor and no dataset was
\* modified after its creation (at its creation time does not count), status is
\* the Status member named by the forecast's remote status.
C10_FreshStatus ==
    \A c \in Clients :
        (/\ Done(c, "status")
         /\ client[c].past_status # <<>>
         /\ client[c].past_status[1].PredictorArn = client[c].predictor_arn
         /\ \A d \in DOMAIN client[c].datasets :
                client[c].datasets[d] <= client[c].past_status[1].CreationTime
         /\ client[c].past_status[1].Status \in Status)
        => client[c].result = Return(client[c].past_status[1].Status)

\* an ACTIVE forecast created at the very time a dataset was modified
C10_Witness ==
    \E c \in Clients :
        /\ Done(c, "status")
        /\ client[c].past_status # <<>>
        /\ client[c].past_status[1].CreationTime > 0
        /\ \E d \in DOMAIN client[c].datasets :
               client[c].datasets[d] = client[c].past_status[1].CreationTime
        /\ client[c].result = Return("ACTIVE")

\* C4: a create() whose request is accepted or answered "already exists" or "in
\* use" returns normally, having made one create_forecast call and nothing else;
\* so does the second of two create() calls in a row.
C4_CreateTwice ==
    \A c \in Clients :
        (/\ Done(c, "create")
         /\ client[c].answer \in {"ok", "ResourceAlreadyExistsException",
                                  "ResourceInUseException"})
        => /\ client[c].result = Return("None")
           /\ Len(client[c].calls) = 1
           /\ client[c].calls[1].req.op = "create_forecast"

\* the second create() in a row, answered "already exists"
C4_Witness ==
    \E c \in Clients :
        /\ Done(c, "create")
        /\ caller[c] \in {"created", "created_when_absent"}
        /\ client[c].answer = "ResourceAlreadyExistsException"
        /\ client[c].result = Return("None")

\* C7: create() makes one create_forecast call, for the name
\* forecast_{group name}_{latest timestamp} and the current predictor's arn.
C7_ForecastName ==
    \A c \in Clients :
        Done(c, "create")
        => /\ Len(client[c].calls) = 1
           /\ client[c].calls[1].req.op = "create_forecast"
           /\ client[c].calls[1].req.ForecastName =
                  <<"forecast_">> \o group_name \o <<"_">> \o Timestamps[latest_timestamp]
           /\ client[c].calls[1].req.PredictorArn = predictor_arn

\* a create() of the second Forecast object (another configuration), after the
\* predictor and the latest timestamp have changed
C7_Witness ==
    /\ Done(2, "create")
    /\ latest_timestamp = 2
    /\ caller[1] \in {"created", "created_when_absent"}
    /\ \E f \in forecasts : f.PredictorArn \in Predictors \ {predictor_arn}

\* C8: the service never holds two forecasts of one name, and a create() that
\* leaves a forecast of the requested name in place (it won, or it lost to
\* another creator) does not raise.
C8_ConcurrentCreate ==
    /\ \A f, g \in forecasts : f.ForecastName = g.ForecastName => f = g
    /\ \A c \in Clients :
        (/\ Done(c, "create")
         /\ \E f \in forecasts : f.ForecastName = client[c].calls[1].req.ForecastName)
        => client[c].result.kind = "return"

\* both callers saw DOES_NOT_EXIST; one has created the forecast, the other's
\* create() is answered "already exists" and returns
C8_Witness ==
    \E c, o \in Clients :
        /\ c # o
        /\ Done(c, "create")
        /\ caller[c] = "observed_absent"
        /\ caller[o] = "created_when_absent"
        /\ client[c].answer = "ResourceAlreadyExistsException"
        /\ client[c].result = Return("None")
        /\ \E f \in forecasts : /\ f.ForecastName = client[c].calls[1].req.ForecastName
                                /\ f.PredictorArn = client[c].calls[1].req.PredictorArn
                                /\ f.Status = "CREATE_PENDING"

\* the calls that read the service's state, and the calls that create
ReadOrCreate == {"list_forecasts", "describe_forecast", "create_forecast",
                 "describe_forecast_export_job", "create_forecast_export_job"}

\* C9 as stated: every create_forecast request is made in a state where status
\* evaluates to DOES_NOT_EXIST, and no request changes an existing forecast.
C9_CreateOnlyWhenAbsent ==
    [][\A c \in Clients :
        (client[c].pc = "idle" /\ client'[c].op = "create")
        => /\ StatusNow = {Return("DOES_NOT_EXIST")}
           /\ forecasts \subseteq forecasts'
           /\ Ops(client'[c]) \subseteq ReadOrCreate]_vars

\* C9, amended: create() does not consult status; the calls the component makes
\* only read the service's state or create, every forecast that exists before a
\* step of the component exists unchanged after it, and a forecast it adds is
\* CREATE_PENDING.
C9_OnlyCreates ==
    [][\A c \in Clients :
        client'[c] # client[c]
        => /\ forecasts \subseteq forecasts'
           /\ \A f \in forecasts' \ forecasts : f.Status = "CREATE_PENDING"
           /\ Ops(client'[c]) \subseteq ReadOrCreate]_vars

\* a create() made while status is ACTIVE: the request is answered "already
\* exists" and the forecast stays as it is
C9_Witness ==
    \E c \in Clients :
        /\ Done(c, "create")
        /\ client[c].answer = "ResourceAlreadyExistsException"
        /\ StatusNow = {Return("ACTIVE")}

ExportName(frame) == <<"export_">> \o group_name \o <<"_">> \o Timestamps[frame.latest_timestamp]

\* C5 as stated: export() without a forecast raises ValueError and makes no call
\* of the service at all.
C5_NoCallAtAll ==
    [][\A c \in Clients :
        (/\ client[c].pc = "idle"
         /\ client'[c].op = "export"
         /\ OwnForecasts = {})
        => /\ client'[c].pc = "done"
           /\ client'[c].result = Raise("ValueError")
           /\ client'[c].calls = <<>>]_vars

\* C5, amended: export() without a forecast raises ValueError, and the only calls
\* it makes are the list_forecasts calls by which arn is looked up.
C5_ExportWithoutForecast ==
    [][\A c \in Clients :
        (/\ client[c].pc = "idle"
         /\ client'[c].op = "export"
         /\ OwnForecasts = {})
        => /\ client'[c].pc = "done"
           /\ client'[c].result = Raise("ValueError")
           /\ client'[c].calls # <<>>
           /\ Ops(client'[c]) = {"list_forecasts"}]_vars

\* export() raised ValueError after it had listed the group's forecasts
C5_Witness ==
    \E c \in Clients :
        /\ Done(c, "export")
        /\ client[c].result = Raise("ValueError")
        /\ OwnForecasts = {}
        /\ Ops(client[c]) = {"list_forecasts"}

\* C6: an export() whose describe call is answered "not found" makes one
\* create_forecast_export_job call, named export_{group}_{timestamp} with the path
\* s3://{bucket}/exports/export_{group}_{timestamp}, and, the service accepting
\* it, returns an Export of status CREATE_PENDING.
C6_ExportCreates ==
    \A c \in Clients :
        (/\ Done(c, "export")
         /\ \E i \in CallsOf(client[c], "describe_forecast_export_job") :
                client[c].calls[i].answer = "ResourceNotFoundException")
        => /\ Cardinality(CallsOf(client[c], "create_forecast_export_job")) = 1
           /\ \A i \in CallsOf(client[c], "create_forecast_export_job") :
                LET req == client[c].calls[i].req IN
                /\ req.ForecastExportJobName = ExportName(client[c])
                /\ req.Destination.Path =
                       <<"s3://", client[c].bucket, "/exports/">> \o ExportName(client[c])
                /\ client[c].calls[i].answer = "ok"
                   => /\ client[c].result = Return("Export")
                      /\ client[c].export_status = "CREATE_PENDING"

\* an export job created in the second bucket for an ACTIVE forecast
C6_Witness ==
    \E c \in Clients :
        /\ Done(c, "export")
        /\ client[c].bucket = "bucket2"
        /\ client[c].result = Return("Export")
        /\ client[c].export_status = "CREATE_PENDING"
        /\ \E j \in export_jobs :
               /\ j.ForecastArn = client[c].created_arn
               /\ j.ForecastExportJobName = ExportName(client[c])
        /\ \E f \in forecasts : f.ForecastArn = client[c].created_arn /\ f.Status = "ACTIVE"

\* C11: an export() whose describe call is answered "in use" makes no
\* create_forecast_export_job call and returns an Export of status DOES_NOT_EXIST,
\* whatever status the Exports of earlier export() calls were given.
C11_ExportInUse ==
    \A c \in Clients :
        (/\ Done(c, "export")
         /\ \E i \in CallsOf(client[c], "describe_forecast_export_job") :
                client[c].calls[i].answer = "ResourceInUseException")
        => /\ CallsOf(client[c], "create_forecast_export_job") = {}
           /\ client[c].result = Return("Export")
           /\ client[c].export_status = "DOES_NOT_EXIST"

\* "in use" for an export job that an earlier export() created (its Export was
\* given CREATE_PENDING) and that is ACTIVE by now
C11_Witness ==
    \E c \in Clients :
        /\ Done(c, "export")
        /\ client[c].answer = "ResourceInUseException"
        /\ client[c].export_status = "DOES_NOT_EXIST"
        /\ \E j \in export_jobs :
               /\ j.ForecastExportJobArn =
                      export_job_arn(client[c].described_arn, client[c].export_name)
               /\ j.Status = "ACTIVE"

\* C12: export() calls create_forecast_export_job at most once, and only after its
\* describe call was answered "not found"; when the export job it describes
\* exists, it makes no create call and adds no export job, and when the service
\* reports the job with a status that Status has a member for, the Export
\* returned carries that member.
C12_CreateOnlyWhenNotFound ==
    [][\A c \in Clients :
        (client'[c].op = "export" /\ client'[c] # client[c])
        => LET frame == client'[c]
               creates == CallsOf(frame, "create_forecast_export_job")
               describes == CallsOf(frame, "describe_forecast_export_job")
           IN  /\ Cardinality(creates) <= 1
               /\ \A i \in creates : \E k \in describes :
                      k < i /\ frame.calls[k].answer = "ResourceNotFoundException"
               /\ \A k \in describes, j \in export_jobs :
                      (/\ client[c].pc = "export_describe"
                       /\ j.ForecastExportJobArn = frame.calls[k].req.ForecastExportJobArn)
                      => /\ frame.pc = "done"
                         /\ creates = {}
                         /\ export_jobs' = export_jobs
                         /\ (frame.calls[k].answer = "ok" /\ j.Status \in Status)
                            => /\ frame.result = Return("Export")
                               /\ frame.export_status = j.Status]_vars

\* a repeated export(): the job of an earlier export() is found ACTIVE
C12_Witness ==
    \E c \in Clients :
        /\ Done(c, "export")
        /\ client[c].answer = "ok"
        /\ client[c].result = Return("Export")
        /\ client[c].export_status = "ACTIVE"
        /\ CallsOf(client[c], "create_forecast_export_job") = {}
        /\ \E j \in export_jobs :
               /\ j.ForecastExportJobArn =
                      export_job_arn(client[c].described_arn, client[c].export_name)
               /\ j.Status = "ACTIVE"

\* the group's forecasts that no forecast of the group is more recent than
MostRecent ==
    {f \in OwnForecasts :
        \A g \in OwnForecasts : f.LastModificationTime >= g.LastModificationTime}

C14_CreateErrors ==
    \A c \in Clients :
        Done(c, "create")
        => /\ Len(client[c].calls) = 1
           /\ client[c].calls[1].req.op = "create_forecast"
           /\ client[c].calls[1].answer = client[c].answer
           /\ client[c].answer \in {"ResourceAlreadyExistsException",
                                    "ResourceInUseException"}
              => client[c].result = Return("None")
           /\ client[c].answer \notin {"ok", "ResourceAlreadyExistsException",
                                       "ResourceInUseException"}
              => client[c].result = Raise(client[c].answer)

\* a create() for a new name refused at the service's limit of forecasts: the
\* error reaches the caller
C14_Witness ==
    \E c \in Clients :
        /\ Done(c, "create")
        /\ client[c].answer = "LimitExceededException"
        /\ client[c].result = Raise("LimitExceededException")
        /\ Len(client[c].calls) = 1
        /\ \A f \in forecasts : f.ForecastName # client[c].calls[1].req.ForecastName

\* the predictor is retrained or a dataset is modified
EnvChange == Retrain \/ \E d \in 1..NDatasets : ModifyDataset(d)

\* C15: when the predictor and the datasets stop changing, the reconcile loop
\* (status, and create() when it is DOES_NOT_EXIST) does not leave status at
\* DOES_NOT_EXIST for ever, the forecast's name having stayed the same or not.
C15_Converges ==
    ([]<><<EnvChange>>_vars) \/ []<>(Return("DOES_NOT_EXIST") \notin StatusNow)

\* the loop saw DOES_NOT_EXIST for a completed forecast of the predictor before
\* the current one, called create(), was answered "already exists", and status is
\* DOES_NOT_EXIST as before
C15_Witness ==
    /\ Done(1, "create")
    /\ caller[1] = "observed_absent"
    /\ client[1].answer = "ResourceAlreadyExistsException"
    /\ StatusNow = {Return("DOES_NOT_EXIST")}
    /\ \E f \in forecasts :
           /\ f.ForecastName = client[1].calls[1].req.ForecastName
           /\ f.Status = "ACTIVE"
           /\ f.PredictorArn # predictor_arn

\* the errors export() is documented to fail with: the invalid precondition, an
\* unmapped remote status, and the remote service's own errors
Documented == {"ValueError", "KeyError", "ResourceNotFoundException",
               "ResourceAlreadyExistsException", "ResourceInUseException",
               "LimitExceededException"}

\* C16: whatever happens to the group's forecasts during an export(), the export
\* job it describes and the export job it creates are of the forecast its
\* precondition found, and it raises documented errors only.
C16_OneForecast ==
    \A c \in Clients :
        client[c].op = "export"
        => /\ \A i \in CallsOf(client[c], "describe_forecast_export_job") :
                  client[c].calls[i].req.ForecastExportJobArn =
                      export_job_arn(client[c].arn, client[c].export_name)
           /\ \A i \in CallsOf(client[c], "create_forecast_export_job") :
                  client[c].calls[i].req.ForecastArn = client[c].arn
           /\ (client[c].pc = "done" /\ client[c].result.kind = "raise")
              => client[c].result.value \in Documented

\* export() found one forecast, asked for the export job of that forecast, was
\* answered "not found", and created the export job of another forecast, which
\* had appeared in between
C16_Witness ==
    \E c \in Clients :
        /\ Done(c, "export")
        /\ client[c].result = Return("Export")
        /\ client[c].export_status = "CREATE_PENDING"
        /\ client[c].described_arn = client[c].arn
        /\ client[c].created_arn # client[c].arn
        /\ \E f, g \in forecasts :
               /\ f.ForecastArn = client[c].arn
               /\ g.ForecastArn = client[c].created_arn
               /\ g.CreationTime > f.LastModificationTime
        /\ \E j \in export_jobs : j.ForecastArn = client[c].created_arn

====
